---- MODULE Spec2Model ----
(***************************************************************************)
(* py-wave-runup: the runup model family (py_wave_runup/models.py) and the *)
(* ensemble layer (py_wave_runup/ensembles.py) as a state machine.         *)
(*                                                                         *)
(* Numbers.  A float is modelled as a fixed-point integer with three       *)
(* decimals (4 m is 4000, beta = 0.1 is 100); NaN is a reserved integer    *)
(* that every arithmetic operator propagates, as IEEE arithmetic does.     *)
(* The input values are chosen so that no product leaves TLC's 32 bit      *)
(* integers and no divisor is zero.                                        *)
(*                                                                         *)
(* Arguments.  A Python argument is a record [kind, v]: kind "none" for    *)
(* None, "scalar" for a number (v has one element), "seq" for a list.      *)
(* A numpy array is the sequence of its elements.  A value returned by an  *)
(* accessor is a record [scalar, v]: a Python float (scalar = TRUE, one    *)
(* element) or an array.                                                   *)
(***************************************************************************)
EXTENDS Integers, Sequences, FiniteSets, TLC

VARIABLES pc, call, model, err, ret, ens, table, series, built, prev, classes,
          callers, df

vars ==
    <<pc, call, model, err, ret, ens, table, series, built, prev, classes, callers,
      df>>

-----------------------------------------------------------------------------
(* Bounds of the model *)

\* longest list given as an input
MaxLen == 2

-----------------------------------------------------------------------------
(* Fixed-point numbers *)

Scale == 10 * 100

NaN == 0 - 1000 * 1000 * 1000

IsNaN(x) == x = NaN

Abs(x) == IF x < 0 THEN 0 - x ELSE x

\* integer division rounding towards zero, for either sign of a and b (b # 0)
TDiv(a, b) ==
    IF (a >= 0) = (b > 0) THEN Abs(a) \div Abs(b) ELSE 0 - (Abs(a) \div Abs(b))

FAdd(a, b) == IF IsNaN(a) \/ IsNaN(b) THEN NaN ELSE a + b

FSub(a, b) == IF IsNaN(a) \/ IsNaN(b) THEN NaN ELSE a - b

FMul(a, b) == IF IsNaN(a) \/ IsNaN(b) THEN NaN ELSE TDiv(a * b, Scale)

\* 0/0 is NaN; the inputs of the model keep every other divisor away from zero
FDiv(a, b) == IF IsNaN(a) \/ IsNaN(b) \/ b = 0 THEN NaN ELSE TDiv(a * Scale, b)

\* a * p / q for an integer ratio p/q of a constant
FRatio(a, p, q) == IF IsNaN(a) THEN NaN ELSE TDiv(a * p, q)

RECURSIVE ISqrtIn(_, _, _)
\* the largest r in lo..hi with r*r <= n, by bisection
ISqrtIn(n, lo, hi) ==
    IF lo >= hi THEN lo
    ELSE LET mid == (lo + hi + 1) \div 2
         IN  IF mid * mid <= n THEN ISqrtIn(n, mid, hi) ELSE ISqrtIn(n, lo, mid - 1)

ISqrt(n) == ISqrtIn(n, 0, 46340)

\* np.sqrt, x ** 0.5: NaN for a negative argument
FSqrt(x) == IF IsNaN(x) \/ x < 0 THEN NaN ELSE ISqrt(x * Scale)

\* np.tan by its series x + x^3/3 + 2x^5/15 (the slopes are well below 1)
FTan(x) ==
    IF IsNaN(x) THEN NaN
    ELSE LET x2 == FMul(x, x)
             x3 == FMul(x2, x)
             x5 == FMul(x3, x2)
         IN  x + TDiv(x3, 3) + TDiv(2 * x5, 15)

\* np.tanh by Lambert's continued fraction x/(1+x^2/(3+x^2/(5+x^2/(7+x^2/9))))
FTanh(x) ==
    IF IsNaN(x) THEN NaN
    ELSE LET x2 == FMul(x, x)
             c4 == 7 * Scale + FDiv(x2, 9 * Scale)
             c3 == 5 * Scale + FDiv(x2, c4)
             c2 == 3 * Scale + FDiv(x2, c3)
             c1 == Scale + FDiv(x2, c2)
         IN  FDiv(x, c1)

\* a float comparison: every comparison with NaN is False
FLess(a, b) == ~IsNaN(a) /\ ~IsNaN(b) /\ a < b

-----------------------------------------------------------------------------
(* Python arguments and numpy arrays *)

None == [kind |-> "none", v |-> <<>>]

Scalar(x) == [kind |-> "scalar", v |-> <<x>>]

List(s) == [kind |-> "seq", v |-> s]

\* v is None
IsNone(a) == a.kind = "none"

\* not a: None, the number 0 and the empty list are falsy
Falsy(a) ==
    \/ a.kind = "none"
    \/ a.kind = "scalar" /\ a.v[1] = 0
    \/ a.kind = "seq" /\ Len(a.v) = 0

\* np.atleast_1d(a).astype(float): None becomes [nan], a number a length-1 array
AtLeast1dFloat(a) == IF a.kind = "none" THEN <<NaN>> ELSE a.v

\* x.size
Size(x) == Len(x)

\* the element of x that numpy broadcasting pairs with position i of an array of
\* the broadcast length: a length-1 array is stretched
Bc(x, i) == IF Len(x) = 1 THEN x[1] ELSE x[i]

-----------------------------------------------------------------------------
(* RunupModel._newtRaph: the wavenumber k from the dispersion relation.    *)
(* T and h are in thousandths, k in millionths (1/m).                      *)

\* the loop is cut after this many iterations; a cut run is reported as Hang
MaxNewton == 40

\* the value standing for a call that never returns
Hang == NaN - 1

\* 2*pi
TwoPi == 6283

\* 2*pi / x for x in thousandths, in millionths (and for k in millionths, 2*pi/k
\* in thousandths)
TwoPiOver(x) == 10 * TDiv(TwoPi * 100000, x)

\* k * h, in thousandths
KTimesH(k, h) == TDiv(TDiv(k, 10) * h, 100000)

\* 9.81 * k, in millionths
GTimesK(k) == TDiv(981 * k, 100)

\* fk(k) = (2*pi/T)^2 - 9.81*k*tanh(k*h), in millionths
fk(k, T, h) ==
    LET w == FDiv(TwoPi, T)
    IN  w * w - TDiv(TDiv(GTimesK(k), 10) * FTanh(KTimesH(k, h)), 100)

\* f_prime_k(k) = -9.81*tanh(k*h) - 9.81*k*(1 - tanh(k*h)^2), in thousandths
f_prime_k(k, h) ==
    LET th == FTanh(KTimesH(k, h))
    IN  0 - FMul(9810, th)
          - TDiv(TDiv(GTimesK(k), 10) * (Scale - FMul(th, th)), 100 * Scale)

\* the loop test abs(k2 - k1) / k1 > 0.01
NotConverged(k2, k1) ==
    IF k1 > 0 THEN Abs(k2 - k1) > k1 \div 100
    ELSE IF k1 = 0 THEN k2 # 0
    ELSE FALSE

\* a step that moves k1 by 2 % whatever fk(k1) is
NewtStepDrifting(k1, d, T, h) == k1 + k1 \div 50 + 1

\* k1 - fk(k1) / f_prime_k(k1), with d the value of f_prime_k(k1)
NewtStep(k1, d, T, h) == IF d = 0 THEN NaN ELSE k1 - TDiv(fk(k1, T, h) * Scale, d)

RECURSIVE NewtLoop(_, _, _, _, _)
\* the while loop from its test on: i passes of the body are done
NewtLoop(k1, k2, i, T, h) ==
    IF IsNaN(k2) \/ ~NotConverged(k2, k1) THEN k2
    ELSE IF i >= MaxNewton THEN Hang
    ELSE \* i += 1; if i != 1: k1 = k2
         NewtLoop(k2, NewtStep(k2, f_prime_k(k2, h), T, h), i + 1, T, h)

\* the first test of the loop, with the placeholder k2 = 100, and the first pass
\* of the body, which keeps the seed k1
NewtFirst(k1, T, h) ==
    IF ~NotConverged(100 * Scale, k1 \div Scale) THEN 100 * Scale * Scale
    ELSE NewtLoop(k1, NewtStep(k1, f_prime_k(k1, h), T, h), 1, T, h)

\* _newtRaph(T, h): L_not = 9.81 * T^2 / (2*pi), k1 = 2*pi / L_not
newtRaph(T, h) ==
    IF IsNaN(T) THEN NaN
    ELSE NewtFirst(TwoPiOver(FDiv(FMul(9810, FMul(T, T)), TwoPi)), T, h)

-----------------------------------------------------------------------------
(* RunupModel.__init__ *)

ModelNames ==
    <<"Stockdon2006", "Power2018", "Holman1986", "Nielsen2009", "Ruggiero2001",
      "Vousdoukas2012", "Atkinson2017", "Senechal2011", "Beuzen2019",
      "Passarella2018">>

\* The classes a caller may add to the family: MyModel extends RunupModel and
\* defines R2 (by the formula of Ruggiero2001.R2), MyStockdon2006 extends
\* Stockdon2006 and defines nothing of its own.
UserClasses == {"MyModel", "MyStockdon2006"}

\* the class named in the class statement of cls
BaseOf(cls) == IF cls = "MyStockdon2006" THEN "Stockdon2006" ELSE "RunupModel"

\* the class of the family whose property code runs for an instance of cls
Impl(cls) ==
    CASE cls = "MyStockdon2006" -> "Stockdon2006"
      [] cls = "MyModel"        -> "Ruggiero2001"
      [] OTHER                  -> cls

NoModel ==
    [cls |-> "none", Hs |-> <<>>, Tp |-> <<>>, beta |-> <<>>, Lp |-> <<>>,
     h |-> None, r |-> <<>>, zeta |-> <<>>]

\* (2 * np.pi) / k for one wavenumber
LengthOfK(k) ==
    IF k = Hang THEN Hang ELSE IF IsNaN(k) \/ k = 0 THEN NaN ELSE TwoPiOver(k)

\* the wave length of each period, lines 59-67
LpFromTp(Tp, h) ==
    IF ~Falsy(h)
    THEN [i \in 1..Len(Tp) |-> LengthOfK(newtRaph(Tp[i], h.v[1]))]
    ELSE [i \in 1..Len(Tp) |-> FDiv(FMul(9810, FMul(Tp[i], Tp[i])), TwoPi)]

\* the period of each wave length with the factor 2*pi left out
TpFromLpNoTwoPi(Lp, h) == [i \in 1..Len(Lp) |-> FSqrt(FDiv(Lp[i], 9810))]

\* the period of each wave length, lines 69-76
TpFromLp(Lp, h) ==
    IF ~Falsy(h)
    THEN [i \in 1..Len(Lp) |->
            FSqrt(FDiv(FMul(TwoPi, Lp[i]),
                       FMul(9810, FTanh(FDiv(FMul(TwoPi, h.v[1]), Lp[i])))))]
    ELSE [i \in 1..Len(Lp) |-> FSqrt(FDiv(FMul(TwoPi, Lp[i]), 9810))]

\* the Iribarren number of the first case given to every case
ZetaOfFirst(Hs, beta, Lp) ==
    [i \in 1..Len(Hs) |-> FDiv(beta[1], FSqrt(FDiv(Hs[1], Lp[1])))]

\* the Iribarren number, line 84: beta / (Hs / Lp) ** 0.5, element by element
Zeta(Hs, beta, Lp) ==
    [i \in 1..Len(Hs) |-> FDiv(Bc(beta, i), FSqrt(FDiv(Hs[i], Bc(Lp, i))))]

\* the test of line 49 made after the arguments are lifted to arrays, when nothing
\* is None any more
MissingWaveLengthLifted(Lp, Tp) ==
    IsNone(List(AtLeast1dFloat(Lp))) /\ IsNone(List(AtLeast1dFloat(Tp)))

\* the test of line 49: all(v is None for v in [Lp, Tp])
MissingWaveLength(Lp, Tp) == IsNone(Lp) /\ IsNone(Tp)

\* the sizes compared on line 79
SameSize(Hs, Tp, beta, Lp) ==
    Cardinality({Size(Hs), Size(Tp), Size(beta), Size(Lp)}) = 1

\* lines 78-84, with the arrays of lines 54-76: the size check and zeta
Finish(cls, aHs, aTp, abeta, aLp, h, ar) ==
    IF \E i \in 1..Len(aLp) : aLp[i] = Hang
    THEN [err |-> "hang", obj |-> NoModel]
    ELSE IF ~SameSize(aHs, aTp, abeta, aLp)
    THEN [err |-> "ValueError", obj |-> NoModel]
    ELSE [err |-> "none",
          obj |-> [cls |-> cls, Hs |-> aHs, Tp |-> aTp, beta |-> abeta,
                   Lp |-> aLp, h |-> h, r |-> ar, zeta |-> Zeta(aHs, abeta, aLp)]]

\* What lines 59-76 raise for a depth given as a list.  With Lp given, line 72
\* multiplies the float 2 * np.pi by the list: TypeError.  With Tp given, every
\* call _newtRaph(T, self.h) gets the whole list: k * h is an array with one
\* element per depth, and so is k2 after the first pass; the loop test of line
\* 113 on an array of two or more elements raises ValueError.
DepthListError(Lp, h) ==
    IF h.kind # "seq" \/ Len(h.v) = 0 THEN "none"
    ELSE IF ~Falsy(Lp) THEN "TypeError"
    ELSE IF Len(h.v) >= 2 THEN "ValueError"
    ELSE "none"

\* the constructor keeping a Tp that is given and deriving Lp from it, whether
\* or not Lp is given too
ConstructKeepingTp(cls, Hs, Tp, beta, Lp, h, r) ==
    IF MissingWaveLength(Lp, Tp)
    THEN [err |-> "ValueError", obj |-> NoModel]
    ELSE IF DepthListError(IF IsNone(Tp) THEN Lp ELSE None, h) # "none"
    THEN [err |-> DepthListError(IF IsNone(Tp) THEN Lp ELSE None, h), obj |-> NoModel]
    ELSE IF ~IsNone(Tp)
    THEN Finish(cls, AtLeast1dFloat(Hs), Tp.v, AtLeast1dFloat(beta),
                LpFromTp(Tp.v, h), h, AtLeast1dFloat(r))
    ELSE Finish(cls, AtLeast1dFloat(Hs), TpFromLp(Lp.v, h), AtLeast1dFloat(beta),
                Lp.v, h, AtLeast1dFloat(r))

\* Model(Hs, Tp, beta, Lp, h, r) for the class cls: the error raised, or "none"
\* and the fields of the new instance
Construct(cls, Hs, Tp, beta, Lp, h, r) ==
    IF MissingWaveLength(Lp, Tp)
    THEN [err |-> "ValueError", obj |-> NoModel]
    ELSE IF Falsy(Lp) /\ IsNone(Tp)
    THEN \* np.atleast_1d(None) ** 2
         [err |-> "TypeError", obj |-> NoModel]
    ELSE IF DepthListError(Lp, h) # "none"
    THEN [err |-> DepthListError(Lp, h), obj |-> NoModel]
    ELSE IF Falsy(Lp)
    THEN Finish(cls, AtLeast1dFloat(Hs), Tp.v, AtLeast1dFloat(beta),
                LpFromTp(Tp.v, h), h, AtLeast1dFloat(r))
    ELSE Finish(cls, AtLeast1dFloat(Hs), TpFromLp(Lp.v, h), AtLeast1dFloat(beta),
                Lp.v, h, AtLeast1dFloat(r))

-----------------------------------------------------------------------------
(* The accessors of the concrete models.  Each is an element-wise formula  *)
(* over the arrays of the instance m, followed by _return_one_or_array.    *)

NoVal == [scalar |-> TRUE, v |-> <<>>]

\* the array handed back as it is, whatever its size
return_array(val) == [scalar |-> FALSE, v |-> val]

\* _return_one_or_array(val): val.item() when val.size == 1, else val
return_one_or_array(val) ==
    IF Size(val) = 1 THEN [scalar |-> TRUE, v |-> <<val[1]>>]
    ELSE [scalar |-> FALSE, v |-> val]

\* (Hs * Lp) ** 0.5 of element i
SqrtHsLp(m, i) == FSqrt(FMul(m.Hs[i], m.Lp[i]))

\* a mask that is set for every element as soon as one element is dissipative
dissipative_mask_any(m) ==
    [i \in 1..Len(m.zeta) |-> \E j \in 1..Len(m.zeta) : FLess(m.zeta[j], 300)]

\* dissipative_mask = self.zeta < 0.3, line 173
dissipative_mask(m) == [i \in 1..Len(m.zeta) |-> FLess(m.zeta[i], 300)]

\* lines 167-177: the general formula for every element, then the elements the
\* mask selects are overwritten
Stockdon2006_R2(m) ==
    LET general(i) ==
            FMul(1100,
                 FAdd(FMul(FMul(350, m.beta[i]), SqrtHsLp(m, i)),
                      FRatio(FSqrt(FMul(FMul(m.Hs[i], m.Lp[i]),
                                        FAdd(FMul(563, FMul(m.beta[i], m.beta[i])), 4))),
                             1, 2)))
    IN  return_one_or_array(
          [i \in 1..Len(m.Hs) |->
             IF dissipative_mask(m)[i] THEN FMul(43, SqrtHsLp(m, i)) ELSE general(i)])

Stockdon2006_setup(m) ==
    return_one_or_array(
      [i \in 1..Len(m.Hs) |-> FMul(FMul(350, m.beta[i]), SqrtHsLp(m, i))])

Stockdon2006_sinc(m) ==
    return_one_or_array(
      [i \in 1..Len(m.Hs) |-> FMul(FMul(750, m.beta[i]), SqrtHsLp(m, i))])

Stockdon2006_sig(m) ==
    return_one_or_array([i \in 1..Len(m.Hs) |-> FMul(60, SqrtHsLp(m, i))])

\* the two components added, not combined in quadrature
Stockdon2006_swash_sum(m) ==
    return_one_or_array(
      [i \in 1..Len(m.Hs) |-> FAdd(Stockdon2006_sinc(m).v[i], Stockdon2006_sig(m).v[i])])

\* np.sqrt(self.sinc ** 2 + self.sig ** 2) over the values the two accessors return
Stockdon2006_swash(m) ==
    LET sinc == Stockdon2006_sinc(m).v
        sig  == Stockdon2006_sig(m).v
    IN  return_one_or_array(
          [i \in 1..Len(sinc) |->
             FSqrt(FAdd(FMul(sinc[i], sinc[i]), FMul(sig[i], sig[i])))])

\* The terms of Power2018.R2 that are sums and products of x1, x2, x3 (source
\* lines 297 and 316).  The terms built from exp, log and fractional powers have no
\* fixed-point rendering at this scale and are left out of the sum; a NaN in x1,
\* x2 or x3 makes every term, and the sum, NaN.
Power2018_terms(x1, x2, x3) ==
    FAdd(FAdd(FSub(FSub(FAdd(x1, x3), 2 * Scale), FSub(x3, x2)),
              FSub(FSub(x2, x1), x3)),
         FMul(2 * Scale,
              FSub(FMul(FAdd(FMul(0 - 5 * Scale, x3), x1), FSub(2 * Scale, x3)),
                   2 * Scale)))

\* whether arrays of sizes a and b broadcast against each other
Broadcastable(a, b) == a = b \/ a = 1 \/ b = 1

BroadcastSize(a, b) == IF a >= b THEN a ELSE b

\* x1 = Hs/Lp, x2 = beta, x3 = r/Hs: r takes no part in the size check of
\* __init__, so r / Hs is where numpy broadcasts or refuses
Power2018_R2(m) ==
    LET n == BroadcastSize(Size(m.r), Size(m.Hs))
    IN  return_one_or_array(
          [i \in 1..n |->
             FMul(Bc(m.Hs, i),
                  Power2018_terms(FDiv(Bc(m.Hs, i), Bc(m.Lp, i)),
                                  Bc(m.beta, i),
                                  FDiv(Bc(m.r, i), Bc(m.Hs, i))))])

Holman1986_R2(m) ==
    return_one_or_array(
      [i \in 1..Len(m.Hs) |->
         FAdd(FMul(FMul(830, FTan(m.beta[i])), SqrtHsLp(m, i)), FMul(200, m.Hs[i]))])

Holman1986_setup(m) ==
    return_one_or_array([i \in 1..Len(m.Hs) |-> FMul(200, m.Hs[i])])

\* the else-branch reading the Hs and Lp of the first case for every case
Nielsen2009_R2_unmasked(m) ==
    LET beta_mask(i) == FLess(FTan(m.beta[i]), 100)
        LR(i) == IF beta_mask(i) THEN FMul(60, SqrtHsLp(m, 1))
                 ELSE FMul(FMul(600, FTan(m.beta[i])), SqrtHsLp(m, i))
    IN  return_one_or_array([i \in 1..Len(m.Hs) |-> FMul(1980, LR(i))])

Nielsen2009_R2(m) ==
    LET beta_mask(i) == FLess(FTan(m.beta[i]), 100)
        LR(i) == IF beta_mask(i) THEN FMul(60, SqrtHsLp(m, i))
                 ELSE FMul(FMul(600, FTan(m.beta[i])), SqrtHsLp(m, i))
    IN  return_one_or_array([i \in 1..Len(m.Hs) |-> FMul(1980, LR(i))])

Ruggiero2001_R2(m) ==
    return_one_or_array(
      [i \in 1..Len(m.Hs) |->
         FMul(270, FSqrt(FMul(FMul(m.beta[i], m.Hs[i]), m.Lp[i])))])

Vousdoukas2012_R2(m) ==
    return_one_or_array(
      [i \in 1..Len(m.Hs) |->
         FAdd(FAdd(FMul(FMul(530, m.beta[i]), SqrtHsLp(m, i)),
                   FMul(FMul(580, FTan(m.beta[i])), m.Hs[i])),
              450)])

Atkinson2017_R2(m) ==
    return_one_or_array(
      [i \in 1..Len(m.Hs) |->
         FAdd(FMul(FMul(920, FTan(m.beta[i])), SqrtHsLp(m, i)), FMul(160, m.Hs[i]))])

Senechal2011_R2(m) ==
    return_one_or_array(
      [i \in 1..Len(m.Hs) |-> FMul(2140, FTanh(FMul(400, m.Hs[i])))])

Senechal2011_sig(m) ==
    return_one_or_array([i \in 1..Len(m.Hs) |-> FMul(50, SqrtHsLp(m, i))])

\* The pre-trained regressor's predict for one row [Hs, Tp, beta]: the pickled
\* regressor is no part of the sources; it is a fixed function of the row.
GPPredict(Hs, Tp, beta) == FAdd(FAdd(FRatio(Hs, 2, 5), FRatio(Tp, 1, 20)), beta)

\* predict validates its input matrix and refuses NaN with a ValueError
GPRefuses(m) == \E i \in 1..Len(m.Hs) : IsNaN(m.Hs[i]) \/ IsNaN(m.Tp[i]) \/ IsNaN(m.beta[i])

Beuzen2019_R2(m) ==
    return_one_or_array(
      [i \in 1..Len(m.Hs) |-> GPPredict(m.Hs[i], m.Tp[i], m.beta[i])])

Passarella2018_sig(m) ==
    return_one_or_array(
      [i \in 1..Len(m.Hs) |->
         FAdd(FAdd(FDiv(m.beta[i], FAdd(28, m.beta[i])),
                   FDiv(0 - Scale,
                        FSub(FMul(2412255, m.beta[i]),
                             FMul(FMul(5521, m.beta[i]), m.Lp[i])))),
              FDiv(FSub(m.Hs[i], 711),
                   FAdd(465, FMul(173470, FDiv(m.Hs[i], m.Lp[i])))))])

Passarella2018_swash(m) ==
    LET cube(x) == FMul(FMul(x, x), x)
        sq(x)   == FMul(x, x)
    IN  return_one_or_array(
          [i \in 1..Len(m.Hs) |->
             FSub(FAdd(FMul(146737, sq(m.beta[i])),
                       FDiv(FMul(m.Tp[i], cube(m.Hs[i])),
                            FAdd(5800, FMul(10595, cube(m.Hs[i]))))),
                  FMul(4397838, sq(sq(m.beta[i]))))])

Params == {"R2", "setup", "sig", "sinc", "swash"}

\* the properties each class defines
Props(cls) ==
    CASE Impl(cls) = "Stockdon2006"   -> {"R2", "setup", "sinc", "sig", "swash"}
      [] Impl(cls) = "Power2018"      -> {"R2"}
      [] Impl(cls) = "Holman1986"     -> {"R2", "setup"}
      [] Impl(cls) = "Nielsen2009"    -> {"R2"}
      [] Impl(cls) = "Ruggiero2001"   -> {"R2"}
      [] Impl(cls) = "Vousdoukas2012" -> {"R2"}
      [] Impl(cls) = "Atkinson2017"   -> {"R2"}
      [] Impl(cls) = "Senechal2011"   -> {"R2", "sig"}
      [] Impl(cls) = "Beuzen2019"     -> {"R2"}
      [] Impl(cls) = "Passarella2018" -> {"sig", "swash"}
      [] OTHER                  -> {}

\* hasattr looking at what RunupModel gives a class only, not at its properties
HasAttrOfBase(cls, name) == name \in {"doi", "_return_one_or_array", "_newtRaph"}

\* hasattr(cls, name): the properties of the class and what RunupModel gives it
HasAttr(cls, name) ==
    name \in Props(cls) \cup {"doi", "_return_one_or_array", "_newtRaph"}

\* the value of property param of the instance m, for param in Props(m.cls)
PropValue(m, param) ==
    CASE Impl(m.cls) = "Stockdon2006" /\ param = "R2"      -> Stockdon2006_R2(m)
      [] Impl(m.cls) = "Stockdon2006" /\ param = "setup"   -> Stockdon2006_setup(m)
      [] Impl(m.cls) = "Stockdon2006" /\ param = "sinc"    -> Stockdon2006_sinc(m)
      [] Impl(m.cls) = "Stockdon2006" /\ param = "sig"     -> Stockdon2006_sig(m)
      [] Impl(m.cls) = "Stockdon2006" /\ param = "swash"   -> Stockdon2006_swash(m)
      [] Impl(m.cls) = "Power2018" /\ param = "R2"         -> Power2018_R2(m)
      [] Impl(m.cls) = "Holman1986" /\ param = "R2"        -> Holman1986_R2(m)
      [] Impl(m.cls) = "Holman1986" /\ param = "setup"     -> Holman1986_setup(m)
      [] Impl(m.cls) = "Nielsen2009" /\ param = "R2"       -> Nielsen2009_R2(m)
      [] Impl(m.cls) = "Ruggiero2001" /\ param = "R2"      -> Ruggiero2001_R2(m)
      [] Impl(m.cls) = "Vousdoukas2012" /\ param = "R2"    -> Vousdoukas2012_R2(m)
      [] Impl(m.cls) = "Atkinson2017" /\ param = "R2"      -> Atkinson2017_R2(m)
      [] Impl(m.cls) = "Senechal2011" /\ param = "R2"      -> Senechal2011_R2(m)
      [] Impl(m.cls) = "Senechal2011" /\ param = "sig"     -> Senechal2011_sig(m)
      [] Impl(m.cls) = "Beuzen2019" /\ param = "R2"        -> Beuzen2019_R2(m)
      [] Impl(m.cls) = "Passarella2018" /\ param = "sig"   -> Passarella2018_sig(m)
      [] Impl(m.cls) = "Passarella2018" /\ param = "swash" -> Passarella2018_swash(m)
      [] OTHER                                       -> NoVal

\* getattr(m, param): the error raised, or "none" and the value
GetAttr(m, param) ==
    IF param \notin Props(m.cls)
    THEN [err |-> "AttributeError", val |-> NoVal]
    ELSE IF Impl(m.cls) = "Power2018" /\ ~Broadcastable(Size(m.r), Size(m.Hs))
    THEN [err |-> "ValueError", val |-> NoVal]
    ELSE IF Impl(m.cls) = "Beuzen2019" /\ GPRefuses(m)
    THEN [err |-> "ValueError", val |-> NoVal]
    ELSE [err |-> "none", val |-> PropValue(m, param)]

\* the masked write of Stockdon2006.R2 landing in the Hs of the instance, as it
\* would if result were a view of self.Hs
SelfAfterWriteThrough(m, param) ==
    IF m.cls = "Stockdon2006" /\ param = "R2"
    THEN [m EXCEPT !.Hs = [i \in 1..Len(m.Hs) |->
                             IF dissipative_mask(m)[i]
                             THEN FMul(43, SqrtHsLp(m, i)) ELSE m.Hs[i]]]
    ELSE m

\* the instance after the accessor param has run: no accessor assigns to a field
\* of self, and the arrays written in place (result, LR) are new arrays
SelfAfter(m, param) == m

-----------------------------------------------------------------------------
(* ensembles.py: EnsembleRaw and EnsembleMean *)

NoEns ==
    [kind |-> "none", Hs |-> None, Tp |-> None, beta |-> None, Lp |-> None,
     r |-> None, runup_models |-> <<>>]

\* models.RunupModel.__subclasses__() when the classes of defined exist beside
\* those of models.py: the classes whose class statement names RunupModel, in the
\* order of their definition; a class that extends one of them is not listed
Subclasses(defined) ==
    ModelNames \o (IF \E c \in defined : c = "MyModel" /\ BaseOf(c) = "RunupModel"
                   THEN <<"MyModel">> ELSE <<>>)

\* EnsembleRaw.__init__ (EnsembleMean inherits it)
NewEnsembleObj(kind, Hs, Tp, beta, Lp, r, defined) ==
    [kind |-> kind, Hs |-> Hs, Tp |-> Tp, beta |-> beta, Lp |-> Lp, r |-> r,
     runup_models |-> Subclasses(defined)]

valid_params == <<"R2", "setup", "sig", "sinc", "swash">>

\* a name is accepted when some class has an attribute of that name
IsAttrOfSomeModel(param) == \E i \in 1..Len(ModelNames) : HasAttr(ModelNames[i], param)

\* param in valid_params
IsValidParam(param) == \E i \in 1..Len(valid_params) : valid_params[i] = param

\* the arguments of model(Hs=self.Hs, Tp=self.Tp, beta=self.beta, r=self.r), line 90:
\* Lp and h are left at their default, None
ModelArgs(e) ==
    [Hs |-> e.Hs, Tp |-> e.Tp, beta |-> e.beta, Lp |-> None, h |-> None, r |-> e.r]

\* the loop of line 83 without the hasattr test: every discovered class
SupportingAll(e, param) == e.runup_models

\* the classes the loop of line 83 keeps: hasattr(model, param), in order
Supporting(e, param) ==
    LET keep(c) == HasAttr(c, param) IN SelectSeq(e.runup_models, keep)

\* getattr(model(...), param) for one class: the error raised or the value
GetOf(cons, param) ==
    IF cons.err # "none" THEN [err |-> cons.err, val |-> NoVal]
    ELSE GetAttr(cons.obj, param)

ConstructWith(cls, a) == Construct(cls, a.Hs, a.Tp, a.beta, a.Lp, a.h, a.r)

ModelEstimate(e, cls, param) == GetOf(ConstructWith(cls, ModelArgs(e)), param)

\* f"{model_name}_{param}"
ColumnName(cls, param) == cls \o "_" \o param

NoTable == [cols |-> <<>>, nrows |-> 0, cells |-> <<>>]

\* the lengths of the arrays among the values of the results dictionary
ArrayLengths(vals) == {Len(vals[c].v) : c \in {d \in 1..Len(vals) : ~vals[d].scalar}}

\* pd.DataFrame.from_dict(results): a dictionary of scalars alone has no index,
\* arrays of different lengths do not align, a scalar beside arrays is repeated
FromDict(cols, vals) ==
    LET lens == ArrayLengths(vals)
    IN  IF Cardinality(lens) # 1
        THEN [err |-> "ValueError", table |-> NoTable]
        ELSE LET n == CHOOSE k \in lens : TRUE
             IN  [err |-> "none",
                  table |-> [cols |-> cols, nrows |-> n,
                             cells |-> [c \in 1..Len(vals) |->
                                          [i \in 1..n |-> Bc(vals[c].v, i)]]]]

\* pd.DataFrame.from_dict([results]): one row holding the values of the dictionary
FromDictList(cols, vals) ==
    [err |-> "none",
     table |-> [cols |-> cols, nrows |-> 1,
                cells |-> [c \in 1..Len(vals) |-> <<vals[c].v[1]>>]]]

\* hasattr(type(self.Hs), "__iter__"): a list has it, a number and None do not
IsIterable(a) == a.kind = "seq"

\* the first index of out that holds an error, 0 when none does
FirstBad(out) ==
    IF \A c \in 1..Len(out) : out[c].err = "none" THEN 0
    ELSE CHOOSE c \in 1..Len(out) :
           /\ out[c].err # "none"
           /\ \A d \in 1..(c - 1) : out[d].err = "none"

\* lines 93-99: the table of the results dictionary
Frame(hs, cols, vals) ==
    IF IsIterable(hs) THEN FromDict(cols, vals) ELSE FromDictList(cols, vals)

\* the constructor calls of line 90 for the classes cs: class and arguments
Calls(e, cs) == [c \in 1..Len(cs) |-> [cls |-> cs[c], args |-> ModelArgs(e)]]

\* the outcome of the loop of lines 83-91 over the classes sup, whose estimates
\* are out: the first error ends the call
Collect(e, param, sup, out, first) ==
    IF first # 0
    THEN [err |-> out[first].err, table |-> NoTable,
          built |-> Calls(e, SubSeq(sup, 1, first))]
    ELSE [built |-> Calls(e, sup)] @@
         Frame(e.Hs, [c \in 1..Len(sup) |-> ColumnName(sup[c], param)],
               [c \in 1..Len(sup) |-> out[c].val])

Estimates(e, param, sup) == [c \in 1..Len(sup) |-> ModelEstimate(e, sup[c], param)]

CollectAll(e, param, sup, out) == Collect(e, param, sup, out, FirstBad(out))

\* _model_estimates running its loop before it looks at param
model_estimates_checking_last(e, param) ==
    IF ~IsValidParam(param)
    THEN [err |-> "ValueError", table |-> NoTable,
          built |-> CollectAll(e, param, Supporting(e, param),
                               Estimates(e, param, Supporting(e, param))).built]
    ELSE CollectAll(e, param, Supporting(e, param),
                    Estimates(e, param, Supporting(e, param)))

\* EnsembleRaw._model_estimates(param): the error raised or the table, and the
\* constructor calls made, in order
model_estimates(e, param) ==
    IF ~IsValidParam(param)
    THEN [err |-> "ValueError", table |-> NoTable, built |-> <<>>]
    ELSE CollectAll(e, param, Supporting(e, param),
                    Estimates(e, param, Supporting(e, param)))

RECURSIVE SumOver(_, _)
\* the sum of f over the finite set S of indices
SumOver(f, S) ==
    IF S = {} THEN 0
    ELSE LET c == CHOOSE x \in S : TRUE IN f[c] + SumOver(f, S \ {c})

\* the mean of row i with a NaN cell counted as a zero
RowMeanNaNAsZero(t, i) ==
    LET row     == [c \in 1..Len(t.cols) |-> t.cells[c][i]]
        present == {c \in 1..Len(t.cols) : ~IsNaN(row[c])}
    IN  IF present = {} THEN NaN
        ELSE TDiv(SumOver(row, present), Len(t.cols))

\* the mean of row i over every column, NaN as soon as one cell is NaN
RowMeanAllColumns(t, i) ==
    LET row == [c \in 1..Len(t.cols) |-> t.cells[c][i]]
    IN  IF \E c \in 1..Len(t.cols) : IsNaN(row[c]) THEN NaN
        ELSE TDiv(SumOver(row, 1..Len(t.cols)), Len(t.cols))

\* df.mean(axis=1) for row i: pandas skips NaN; a row of NaN alone has mean NaN
RowMean(t, i) ==
    LET row     == [c \in 1..Len(t.cols) |-> t.cells[c][i]]
        present == {c \in 1..Len(t.cols) : ~IsNaN(row[c])}
    IN  IF present = {} THEN NaN
        ELSE TDiv(SumOver(row, present), Cardinality(present))

NoSeries == [name |-> "", v |-> <<>>]

\* df.mean(axis=1).rename(f"mean_{param}") of the outcome res of _model_estimates
MeanOf(res, param) ==
    IF res.err # "none"
    THEN [err |-> res.err, series |-> NoSeries, built |-> res.built]
    ELSE [err |-> "none",
          series |-> [name |-> "mean_" \o param,
                      v |-> [i \in 1..res.table.nrows |-> RowMean(res.table, i)]],
          built |-> res.built]

\* EnsembleMean.estimate(param)
mean_estimate(e, param) == MeanOf(model_estimates(e, param), param)

-----------------------------------------------------------------------------
(* utils.py: determine_waveDepth, reverse_shoal_intermediate, reverse_shoal. *)
(* A dataframe is the sequence of its rows [water_depth, Lo, Tp, Hs] and     *)
(* the sequence of its wave_depth labels, empty when it has no such column.  *)

\* a <= b for floats: False when either is NaN
FLessEq(a, b) == ~IsNaN(a) /\ ~IsNaN(b) /\ a <= b

\* (1.0 / 50.0) * Lo and (1.0 / 2.0) * Lo
FiftiethOf(Lo) == FMul(20, Lo)

HalfOf(Lo) == FMul(500, Lo)

\* the three conditions of lines 189-197 for one row
ShallowCond(r) == FLess(r.water_depth, FiftiethOf(r.Lo))

\* the intermediate condition with both bounds strict
IntermediateCondStrict(r) ==
    FLess(FiftiethOf(r.Lo), r.water_depth) /\ FLess(r.water_depth, HalfOf(r.Lo))

IntermediateCond(r) ==
    FLessEq(FiftiethOf(r.Lo), r.water_depth) /\ FLessEq(r.water_depth, HalfOf(r.Lo))

DeepCond(r) == FLess(HalfOf(r.Lo), r.water_depth)

\* np.select(conditions, values) for one row: the value of the first condition
\* that holds, the default 0 (the string "0" in an array of strings) when none does
SelectLabel(r) ==
    IF ShallowCond(r) THEN "shallow"
    ELSE IF IntermediateCond(r) THEN "intermediate"
    ELSE IF DeepCond(r) THEN "deep"
    ELSE "0"

\* determine_waveDepth(df): the wave_depth column
determine_waveDepth(rows) == [i \in 1..Len(rows) |-> SelectLabel(rows[i])]

\* lines 146-155: kd2 from y = 4.03 * depth / Tp ** 2
Kd2(y) ==
    LET y2 == FMul(y, y)
        y3 == FMul(y2, y)
        y4 == FMul(y3, y)
        y5 == FMul(y4, y)
        y6 == FMul(y5, y)
        den == FAdd(Scale, FAdd(FMul(666, y), FAdd(FMul(355, y2), FAdd(FMul(161, y3),
                    FAdd(FMul(63, y4), FAdd(FMul(21, y5), FMul(5, y6)))))))
    IN  FAdd(y2, FDiv(y, den))

\* 2 * kh / np.sinh(2 * kh), with sinh(2x) = 2 tanh(x) / (1 - tanh(x) ** 2);
\* 0/0 at kh = 0 is NaN
TwoKhOverSinh(kh) ==
    LET t == FTanh(kh)
    IN  FDiv(FMul(kh, FSub(Scale, FMul(t, t))), t)

\* lines 145-166 for one row: the deep water wave height Hs / Ks
ShoalOne(r) ==
    LET y   == FDiv(FMul(4030, r.water_depth), FMul(r.Tp, r.Tp))
        kh  == FSqrt(Kd2(y))
        Cg  == FMul(FMul(FDiv(FMul(9810, r.Tp), TwoPi), FTanh(kh)),
                    FMul(500, FAdd(Scale, TwoKhOverSinh(kh))))
        Cgo == FDiv(2 * FMul(FMul(250, 9810), r.Tp), TwoPi)
        Ks  == FSqrt(FDiv(Cgo, Cg))
    IN  FDiv(r.Hs, Ks)

\* (waterDepthSeries > (1.0 / 2.0) * LoSeries).any()
AnyDeep(rows) == \E i \in 1..Len(rows) : DeepCond(rows[i])

\* the shallow water test of line 135 on the first row alone
AnyShallowFirstOnly(rows) == Len(rows) >= 1 /\ ShallowCond(rows[1])

\* (waterDepthSeries < (1.0 / 50.0) * LoSeries).any()
AnyShallow(rows) == \E i \in 1..Len(rows) : ShallowCond(rows[i])

\* reverse_shoal_intermediate on the four series, given as rows
reverse_shoal_intermediate(rows) ==
    IF AnyDeep(rows)
    THEN [err |-> "ValueError", out |-> <<>>, printed |-> <<"deep">>]
    ELSE [err |-> "none",
          out |-> [i \in 1..Len(rows) |-> ShoalOne(rows[i])],
          printed |-> IF AnyShallow(rows) THEN <<"shallow">> ELSE <<>>]

\* the rows every label sends to reverse_shoal_intermediate
MaskAll(labels) == [i \in 1..Len(labels) |-> TRUE]

\* mask_int = df.wave_depth == "intermediate"
MaskInt(labels) == [i \in 1..Len(labels) |-> labels[i] = "intermediate"]

\* the positions of the rows the mask keeps, in row order: the index of df[mask]
Kept(mask) ==
    LET keep(i) == mask[i] IN SelectSeq([i \in 1..Len(mask) |-> i], keep)

\* the values assigned by position, the index left aside
PosInFirst(idx, i) == 1

\* the position of row i in the index idx
PosIn(idx, i) == CHOOSE p \in 1..Len(idx) : idx[p] = i

\* reverse_shoal(df_wave): the column Ho of the copy.  A frame with no wave_depth
\* column raises KeyError at line 239.
reverse_shoal(rows, labels) ==
    IF Len(labels) # Len(rows)
    THEN [err |-> "KeyError", out |-> <<>>, printed |-> <<>>]
    ELSE LET idx == Kept(MaskInt(labels))
             Ho  == reverse_shoal_intermediate([p \in 1..Len(idx) |-> rows[idx[p]]])
         IN  IF Ho.err # "none" THEN Ho
             ELSE [err |-> "none",
                   out |-> [i \in 1..Len(rows) |->
                              IF labels[i] = "deep" THEN rows[i].Hs
                              ELSE IF labels[i] = "intermediate"
                                   THEN Ho.out[PosIn(idx, i)]
                                   ELSE NaN],
                   printed |-> Ho.printed]

-----------------------------------------------------------------------------
(* The inputs the callers give *)

\* element i of the lists given for each argument
HsAt(i)   == IF i % 2 = 1 THEN 1000 ELSE 4000
TpAt(i)   == IF i % 2 = 1 THEN 8000 ELSE 11000
betaAt(i) == IF i % 2 = 1 THEN 100 ELSE 1
LpAt(i)   == IF i % 2 = 1 THEN 100000 ELSE 200000
rAt(i)    == IF i % 2 = 1 THEN 1 ELSE 2

\* the lists of 1 to MaxLen elements whose odd elements are a, the even ones b
Lists(a, b) == {List([i \in 1..n |-> IF i % 2 = 1 THEN a ELSE b]) : n \in 1..MaxLen}

HsArgs   == {None, Scalar(4000)} \cup Lists(HsAt(1), HsAt(2))
TpArgs   == {None, Scalar(11000)} \cup Lists(TpAt(1), TpAt(2))
betaArgs == {Scalar(100), Scalar(30), Scalar(1)} \cup Lists(betaAt(1), betaAt(2))
LpArgs   == {None, Scalar(200000)} \cup Lists(LpAt(1), LpAt(2))
hAt(i)    == IF i % 2 = 1 THEN 10000 ELSE 5000
hArgs    == {None, Scalar(10000), Scalar(5000)} \cup Lists(hAt(1), hAt(2))
rArgs    == {None, Scalar(1)} \cup Lists(rAt(1), rAt(2))

\* the roughness given to a model: also a list whose first element is NaN
rModelArgs == rArgs \cup {List(<<NaN, 2>>)}

\* the period given to a model: also a ripple of 0.203 s, whose deep-water
\* wavenumber 4*pi^2 / (9.81 * T^2) lies within 1 % of 100
TpModelArgs == TpArgs \cup {Scalar(203)}

\* the wave height given to a model: also the 1 cm of that ripple
HsModelArgs == HsArgs \cup {Scalar(10)}

\* the wave records of a dataframe: Lo = 200 m with depths of 2 m (shallow), 4 m
\* and 100 m (the two bounds), 10 m, 150 m (deep, with two wave heights) and NaN,
\* and a record whose Lo is NaN
RowOf(d, Lo, Hs) == [water_depth |-> d, Lo |-> Lo, Tp |-> 11280, Hs |-> Hs]

RowArgs ==
    {RowOf(2000, 200000, 2000), RowOf(4000, 200000, 2000), RowOf(10000, 200000, 2000),
     RowOf(100000, 200000, 2000), RowOf(150000, 200000, 2000),
     RowOf(150000, 200000, 1000), RowOf(NaN, 200000, 2000), RowOf(10000, NaN, 2000)}

\* the labels a caller writes in the wave_depth column by hand
LabelArgs == {"shallow", "intermediate", "deep"}

\* the names given to estimate: the five parameters, a name no class has and a
\* name every class has
ParamNames == Params \cup {"not_r2", "doi"}

-----------------------------------------------------------------------------
(* The state machine.  pc is "idle" with nothing built, "model" while a    *)
(* caller holds a model instance, "failed" after a constructor raised,     *)
(* "ensemble" while a caller holds an ensemble.  call is the last call     *)
(* with its arguments; err the exception it raised ("none": it returned).  *)
(* model and ret are the instance held and the value its last accessor     *)
(* returned; ens, table and series the ensemble held and what its last     *)
(* estimate returned; built the constructor calls that estimate made.      *)
(* prev is the instance whose wave length the caller gave to the           *)
(* constructor of the instance held now.  classes are the classes callers   *)
(* have defined beside those of models.py.  pc is "callers" while two      *)
(* independent callers run their calls side by side; callers holds, for    *)
(* each of them, its position in its call and its local variables.  pc is  *)
(* "frame" while a caller holds a dataframe df of wave records, with what  *)
(* the last function of utils.py called on it returned.                    *)

NoCall ==
    [op |-> "none", cls |-> "none", param |-> "", Hs |-> None, Tp |-> None,
     beta |-> None, Lp |-> None, h |-> None, r |-> None]

\* no dataframe held; by tells who wrote the wave_depth column
NoFrame ==
    [rows |-> <<>>, wave_depth |-> <<>>, by |-> "none", op |-> "none",
     err |-> "none", out |-> <<>>, printed |-> <<>>]

\* the two independent callers
Callers == {1, 2}

\* a caller between two calls: nothing held, no local variable set
NoCaller ==
    [at |-> "ready", op |-> "none", cls |-> "", param |-> "",
     args |-> ModelArgs(NoEns), obj |-> NoModel, e |-> NoEns, i |-> 0,
     cols |-> <<>>, vals |-> <<>>, err |-> "none", val |-> NoVal,
     table |-> NoTable, series |-> NoSeries, mixed |-> FALSE]

\* the inputs of each caller, disjoint: the first gives numbers, the second lists
CallerArgs(c) ==
    IF c = 1
    THEN {[Hs |-> Scalar(4000), Tp |-> Scalar(11000), beta |-> Scalar(100),
           Lp |-> None, h |-> None, r |-> r] : r \in {None, Scalar(1)}}
    ELSE {[Hs |-> List(<<1000, 4000>>), Tp |-> List(<<8000, 11000>>),
           beta |-> List(<<100, 1>>), Lp |-> None, h |-> None, r |-> r] :
             r \in {None, List(<<1, 2>>)}}

\* caller c is inside a call or holds an object
Busy(cs, c) == cs[c].at \notin {"ready", "done"}

\* whether a step of caller c happens while another caller is busy
Mixed(cs, c) == cs[c].mixed \/ \E d \in Callers \ {c} : Busy(cs, d)

Init ==
    /\ pc = "idle"
    /\ call = NoCall
    /\ model = NoModel
    /\ err = "none"
    /\ ret = NoVal
    /\ ens = NoEns
    /\ table = NoTable
    /\ series = NoSeries
    /\ built = <<>>
    /\ prev = NoModel
    /\ classes = {}
    /\ callers = [c \in Callers |-> NoCaller]
    /\ df = NoFrame

\* class MyModel(RunupModel): ... or class MyStockdon2006(Stockdon2006): ...
DefineClass ==
    /\ pc = "idle"
    /\ \E c \in UserClasses \ classes : classes' = classes \cup {c}
    /\ UNCHANGED <<pc, call, model, err, ret, ens, table, series, built, prev, callers,
                 df>>

\* cls(Hs=..., Tp=..., beta=..., Lp=..., h=..., r=...).  A depth given as a list of
\* one element with two or more periods is left out: every wavenumber is an
\* array of one element and Lp a matrix of one column.
NewModel ==
    /\ pc = "idle"
    /\ \E i \in 1..Len(ModelNames), Hs \in HsModelArgs, Tp \in TpModelArgs,
          beta \in betaArgs, Lp \in LpArgs, h \in hArgs, r \in rModelArgs :
         /\ ~(h.kind = "seq" /\ Len(h.v) = 1 /\ Falsy(Lp) /\ Len(Tp.v) >= 2)
         \* the ripple comes whole: its height with its period, at a depth
         /\ (Tp = Scalar(203)) <=> (Hs = Scalar(10))
         /\ (Tp = Scalar(203)) => (h.kind = "scalar" /\ IsNone(Lp))
         /\ \E res \in {Construct(ModelNames[i], Hs, Tp, beta, Lp, h, r)} :
             /\ call' = [op |-> "new", cls |-> ModelNames[i], param |-> "", Hs |-> Hs,
                         Tp |-> Tp, beta |-> beta, Lp |-> Lp, h |-> h, r |-> r]
             /\ err' = res.err
             /\ model' = res.obj
             /\ pc' = IF res.err = "none" THEN "model" ELSE "failed"
    /\ UNCHANGED <<ret, ens, table, series, built, prev, classes, callers, df>>

\* model.R2, model.setup, model.sinc, model.sig, model.swash
Query ==
    /\ pc = "model"
    /\ \E param \in Params :
         \E res \in {GetAttr(model, param)} :
             /\ call' = [call EXCEPT !.op = "get", !.param = param]
             /\ err' = res.err
             /\ ret' = res.val
             /\ model' = SelfAfter(model, param)
    /\ UNCHANGED <<pc, ens, table, series, built, prev, classes, callers, df>>

\* the Lp of the held instance as the caller passes it on: a number when the
\* instance was built from numbers, a list otherwise
AsArg(c, a) == IF c.Hs.kind = "seq" THEN List(a) ELSE Scalar(a[1])

\* cls(Hs=..., beta=..., Lp=<the Lp of the held instance>, r=...): a second
\* instance from the wave length the first derived from its Tp, no depth given
Rederive ==
    /\ pc = "model"
    /\ prev = NoModel
    /\ IsNone(call.Lp) /\ IsNone(call.h)
    /\ \A i \in 1..Len(model.Lp) : ~IsNaN(model.Lp[i])
    /\ \E res \in {Construct(call.cls, call.Hs, None, call.beta,
                              AsArg(call, model.Lp), None, call.r)} :
         /\ call' = [call EXCEPT !.op = "new", !.param = "", !.Tp = None,
                                 !.Lp = AsArg(call, model.Lp)]
         /\ err' = res.err
         /\ model' = res.obj
         /\ pc' = IF res.err = "none" THEN "model" ELSE "failed"
    /\ prev' = model
    /\ UNCHANGED <<ret, ens, table, series, built, classes, callers, df>>

\* EnsembleRaw(...) or EnsembleMean(...).  An r given as a list of two or more to
\* an ensemble whose Hs is a number is left out: Power2018 would put an array in
\* one cell of the one-row table.
NewEnsemble ==
    /\ pc = "idle"
    /\ \E kind \in {"Raw", "Mean"}, Hs \in HsArgs, Tp \in TpArgs, beta \in betaArgs,
          Lp \in LpArgs, r \in rArgs :
         /\ IsIterable(Hs) \/ Len(r.v) <= 1
         /\ ens' = NewEnsembleObj(kind, Hs, Tp, beta, Lp, r, classes)
         /\ call' = [op |-> "ensemble", cls |-> kind, param |-> "", Hs |-> Hs,
                     Tp |-> Tp, beta |-> beta, Lp |-> Lp, h |-> None, r |-> r]
    /\ err' = "none"
    /\ pc' = "ensemble"
    /\ UNCHANGED <<model, ret, table, series, built, prev, classes, callers, df>>

\* EnsembleRaw.estimate(param)
EstimateRaw ==
    /\ pc = "ensemble"
    /\ ens.kind = "Raw"
    /\ \E param \in ParamNames :
         \E res \in {model_estimates(ens, param)} :
             /\ call' = [call EXCEPT !.op = "estimate", !.param = param]
             /\ err' = res.err
             /\ table' = res.table
             /\ built' = res.built
    /\ series' = NoSeries
    /\ UNCHANGED <<pc, model, ret, ens, prev, classes, callers, df>>

\* EnsembleMean.estimate(param)
EstimateMean ==
    /\ pc = "ensemble"
    /\ ens.kind = "Mean"
    /\ \E param \in ParamNames :
         \E res \in {mean_estimate(ens, param)} :
             /\ call' = [call EXCEPT !.op = "estimate", !.param = param]
             /\ err' = res.err
             /\ series' = res.series
             /\ built' = res.built
    /\ table' = NoTable
    /\ UNCHANGED <<pc, model, ret, ens, prev, classes, callers, df>>

\* what every step of a caller leaves alone
CallerFrameCond ==
    /\ pc \in {"idle", "callers"}
    /\ pc' = "callers"
    /\ UNCHANGED <<call, model, err, ret, ens, table, series, built, prev, classes, df>>

\* caller c: cls(Hs=..., Tp=..., beta=..., r=...)
CallerNewModel(c) ==
    /\ CallerFrameCond
    /\ callers[c].at = "ready"
    /\ \E cls \in {"Stockdon2006", "Power2018"}, a \in CallerArgs(c) :
         \E res \in {ConstructWith(cls, a)} :
             callers' = [callers EXCEPT ![c] =
                 [NoCaller EXCEPT !.op = "new", !.cls = cls, !.args = a,
                                  !.obj = res.obj, !.err = res.err,
                                  !.at = IF res.err = "none" THEN "model" ELSE "done",
                                  !.mixed = Mixed(callers, c)]]

\* caller c: one accessor of the instance it holds
CallerQuery(c) ==
    /\ CallerFrameCond
    /\ callers[c].at = "model"
    /\ \E param \in {"R2", "sig"} :
         \E res \in {GetAttr(callers[c].obj, param)} :
             callers' = [callers EXCEPT ![c] =
                 [@ EXCEPT !.op = "get", !.param = param, !.err = res.err,
                           !.val = res.val, !.obj = SelfAfter(@, param),
                           !.at = "done", !.mixed = Mixed(callers, c)]]

\* caller c: EnsembleRaw(Hs=..., Tp=..., beta=..., r=...) or EnsembleMean(...)
CallerNewEnsemble(c) ==
    /\ CallerFrameCond
    /\ callers[c].at = "ready"
    /\ \E kind \in {"Raw", "Mean"}, a \in CallerArgs(c) :
         callers' = [callers EXCEPT ![c] =
             [NoCaller EXCEPT !.op = "ensemble", !.cls = kind, !.args = a,
                              !.e = NewEnsembleObj(kind, a.Hs, a.Tp, a.beta, a.Lp,
                                                   a.r, classes),
                              !.at = "ensemble", !.mixed = Mixed(callers, c)]]

\* a results dictionary shared by the callers: what another caller has put in
SharedResults(cs, c) ==
    [cols |-> cs[CHOOSE d \in Callers : d # c].cols,
     vals |-> cs[CHOOSE d \in Callers : d # c].vals]

\* results = {}, line 81: a dictionary of the call's own
FreshResults(cs, c) == [cols |-> <<>>, vals |-> <<>>]

\* caller c enters estimate(param): lines 77-81 of _model_estimates
CallerEstimate(c) ==
    /\ CallerFrameCond
    /\ callers[c].at = "ensemble"
    /\ \E param \in {"R2", "sig", "doi"} :
         callers' = [callers EXCEPT ![c] =
             IF ~IsValidParam(param)
             THEN [@ EXCEPT !.op = "estimate", !.param = param,
                            !.err = "ValueError", !.at = "done",
                            !.mixed = Mixed(callers, c)]
             ELSE [@ EXCEPT !.op = "estimate", !.param = param, !.i = 1,
                            !.cols = FreshResults(callers, c).cols,
                            !.vals = FreshResults(callers, c).vals,
                            !.at = "loop", !.mixed = Mixed(callers, c)]]

\* caller c: one iteration of the loop of lines 83-91
CallerLoop(c) ==
    /\ CallerFrameCond
    /\ callers[c].at = "loop"
    /\ callers[c].i <= Len(callers[c].e.runup_models)
    /\ \E cls \in {callers[c].e.runup_models[callers[c].i]} :
         IF ~HasAttr(cls, callers[c].param)
         THEN callers' = [callers EXCEPT ![c] =
                  [@ EXCEPT !.i = @ + 1, !.mixed = Mixed(callers, c)]]
         ELSE \E res \in {ModelEstimate(callers[c].e, cls, callers[c].param)} :
                  callers' = [callers EXCEPT ![c] =
                      IF res.err # "none"
                      THEN [@ EXCEPT !.err = res.err, !.at = "done",
                                     !.mixed = Mixed(callers, c)]
                      ELSE [@ EXCEPT !.i = @ + 1,
                                     !.cols = Append(@, ColumnName(cls, callers[c].param)),
                                     !.vals = Append(@, res.val),
                                     !.mixed = Mixed(callers, c)]]

\* caller c: lines 93-99 after the loop, and line 125 for EnsembleMean
CallerReturn(c) ==
    /\ CallerFrameCond
    /\ callers[c].at = "loop"
    /\ callers[c].i > Len(callers[c].e.runup_models)
    /\ \E tbl \in {Frame(callers[c].e.Hs, callers[c].cols, callers[c].vals)} :
         callers' = [callers EXCEPT ![c] =
             IF callers[c].e.kind = "Raw"
             THEN [@ EXCEPT !.err = tbl.err, !.table = tbl.table, !.at = "done",
                            !.mixed = Mixed(callers, c)]
             ELSE [@ EXCEPT !.err = tbl.err,
                            !.series = MeanOf(tbl @@ [built |-> <<>>],
                                              callers[c].param).series,
                            !.at = "done", !.mixed = Mixed(callers, c)]]

\* caller c drops what its call returned and is ready for its next call
CallerDone(c) ==
    /\ CallerFrameCond
    /\ callers[c].at = "done"
    /\ callers' = [callers EXCEPT ![c] = NoCaller]

CallerStep(c) ==
    \/ CallerNewModel(c) \/ CallerQuery(c)
    \/ CallerNewEnsemble(c) \/ CallerEstimate(c) \/ CallerLoop(c) \/ CallerReturn(c)
    \/ CallerDone(c)

\* pd.DataFrame({"water_depth": ..., "Lo": ..., "Tp": ..., "Hs": ...}), with or
\* without a wave_depth column written by hand
NewFrame ==
    /\ pc = "idle"
    /\ \E n \in 1..MaxLen :
         \E rows \in [1..n -> RowArgs] :
             \E labels \in {<<>>} \cup [1..n -> LabelArgs] :
                 df' = [NoFrame EXCEPT !.rows = rows, !.wave_depth = labels,
                                       !.by = IF labels = <<>> THEN "none" ELSE "hand"]
    /\ pc' = "frame"
    /\ UNCHANGED <<call, model, err, ret, ens, table, series, built, prev, classes,
                   callers>>

\* utils.determine_waveDepth(df): writes the column wave_depth of df, line 203
DetermineWaveDepth ==
    /\ pc = "frame"
    /\ df' = [df EXCEPT !.wave_depth = determine_waveDepth(df.rows),
                        !.by = "determine", !.op = "determine_waveDepth",
                        !.err = "none", !.out = determine_waveDepth(df.rows),
                        !.printed = <<>>]
    /\ UNCHANGED <<pc, call, model, err, ret, ens, table, series, built, prev,
                   classes, callers>>

\* utils.reverse_shoal_intermediate on the four columns of df
ReverseShoalIntermediate ==
    /\ pc = "frame"
    /\ \E res \in {reverse_shoal_intermediate(df.rows)} :
         df' = [df EXCEPT !.op = "reverse_shoal_intermediate", !.err = res.err,
                          !.out = res.out, !.printed = res.printed]
    /\ UNCHANGED <<pc, call, model, err, ret, ens, table, series, built, prev,
                   classes, callers>>

\* utils.reverse_shoal(df): works on a copy, df is left as it is
ReverseShoal ==
    /\ pc = "frame"
    /\ \E res \in {reverse_shoal(df.rows, df.wave_depth)} :
         df' = [df EXCEPT !.op = "reverse_shoal", !.err = res.err,
                          !.out = res.out, !.printed = res.printed]
    /\ UNCHANGED <<pc, call, model, err, ret, ens, table, series, built, prev,
                   classes, callers>>

\* the caller drops what it holds; the classes stay defined
Discard ==
    /\ pc # "idle"
    /\ pc' = "idle"
    /\ call' = NoCall
    /\ model' = NoModel
    /\ err' = "none"
    /\ ret' = NoVal
    /\ ens' = NoEns
    /\ table' = NoTable
    /\ series' = NoSeries
    /\ built' = <<>>
    /\ prev' = NoModel
    /\ callers' = [c \in Callers |-> NoCaller]
    /\ df' = NoFrame
    /\ UNCHANGED classes

\* models alone
NextModel == NewModel \/ Query \/ Rederive \/ Discard

SpecModel == Init /\ [][NextModel]_vars

\* ensembles alone
NextEnsemble == DefineClass \/ NewEnsemble \/ EstimateRaw \/ EstimateMean \/ Discard

SpecEnsemble == Init /\ [][NextEnsemble]_vars

\* two callers side by side
NextCallers == (\E c \in Callers : CallerStep(c)) \/ Discard

SpecCallers == Init /\ [][NextCallers]_vars

\* the dataframe functions of utils.py alone
NextUtils ==
    NewFrame \/ DetermineWaveDepth \/ ReverseShoalIntermediate \/ ReverseShoal \/ Discard

SpecUtils == Init /\ [][NextUtils]_vars

Next ==
    \/ NewModel \/ Query \/ Rederive
    \/ NewFrame \/ DetermineWaveDepth \/ ReverseShoalIntermediate \/ ReverseShoal
    \/ DefineClass \/ NewEnsemble \/ EstimateRaw \/ EstimateMean
    \/ (\E c \in Callers : CallerStep(c))
    \/ Discard

Spec == Init /\ [][Next]_vars

-----------------------------------------------------------------------------
(* Properties *)

\* the length of an argument once a number or None is lifted to a length-1 array
LiftedLen(a) == IF a.kind = "seq" THEN Len(a.v) ELSE 1

\* the one of Tp and Lp the constructor reads: Lp when it is given
WaveArg(c) == IF Falsy(c.Lp) THEN c.Tp ELSE c.Lp

\* C1: a constructor called with neither Tp nor Lp raises ValueError and leaves no
\* instance, for every class and whatever Hs, beta, h and r are; no instance is
\* held whose constructor had neither.
C1_MissingWaveLengthFails ==
    /\ (call.op = "new" /\ IsNone(call.Tp) /\ IsNone(call.Lp))
          => (err = "ValueError" /\ model = NoModel /\ pc = "failed")
    /\ pc = "model" => ~(IsNone(call.Tp) /\ IsNone(call.Lp))

C1_Witness ==
    /\ call.op = "new" /\ call.cls = "Power2018"
    /\ IsNone(call.Tp) /\ IsNone(call.Lp)
    /\ call.Hs = Scalar(4000) /\ ~IsNone(call.h) /\ ~IsNone(call.r)
    /\ err = "ValueError" /\ model = NoModel

\* C2: a constructor whose Hs, beta and wave argument (Lp, or Tp when no Lp is
\* given) differ in lifted length raises ValueError and leaves no instance; the
\* Hs, beta, Tp and Lp of every instance have one common length.
C2_InconsistentLengthFails ==
    /\ ( /\ call.op = "new"
         /\ ~(IsNone(call.Tp) /\ IsNone(call.Lp))
         /\ Cardinality({LiftedLen(call.Hs), LiftedLen(call.beta),
                         LiftedLen(WaveArg(call))}) # 1 )
          => (err = "ValueError" /\ model = NoModel /\ pc = "failed")
    /\ pc = "model"
          => /\ Len(model.Hs) = Len(model.beta)
             /\ Len(model.Hs) = Len(model.Tp)
             /\ Len(model.Hs) = Len(model.Lp)

\* C3: constructing Power2018 without r raises ValueError, for every Hs, beta and
\* Tp/Lp; no Power2018 instance is held whose r was not given.
C3_Power2018NeedsRoughness ==
    /\ (call.op = "new" /\ call.cls = "Power2018" /\ IsNone(call.r))
          => (err = "ValueError" /\ model = NoModel)
    /\ (pc = "model" /\ model.cls = "Power2018") => ~IsNone(call.r)
\* the arguments given to the constructor of the held instance: all numbers
\* (Tp or Lp and r may be left out), or all sequences of length n
IsScalarOrNone(a) == a.kind \in {"scalar", "none"}

IsSeqOfLenOrNone(a, n) == IsNone(a) \/ (a.kind = "seq" /\ Len(a.v) = n)

ScalarCall ==
    /\ call.Hs.kind = "scalar" /\ call.beta.kind = "scalar"
    /\ IsScalarOrNone(call.Tp) /\ IsScalarOrNone(call.Lp) /\ IsScalarOrNone(call.r)

SeqCall(n) ==
    /\ call.Hs.kind = "seq" /\ Len(call.Hs.v) = n
    /\ call.beta.kind = "seq" /\ Len(call.beta.v) = n
    /\ IsSeqOfLenOrNone(call.Tp, n) /\ IsSeqOfLenOrNone(call.Lp, n)
    /\ IsSeqOfLenOrNone(call.r, n)

\* a parameter the class of the held instance supports was read
SupportedGet == call.op = "get" /\ call.param \in Props(call.cls)

Estimated(kind) == call.op = "estimate" /\ ens.kind = kind

\* C5: estimate(param) of EnsembleRaw and of EnsembleMean raises ValueError for
\* every param outside R2, setup, sig, sinc, swash, and returns no table and no
\* series.
C5_InvalidParamFails ==
    (call.op = "estimate" /\ call.param \notin {"R2", "setup", "sig", "sinc", "swash"})
        => (err = "ValueError" /\ table = NoTable /\ series = NoSeries)

C5_Witness ==
    /\ Estimated("Mean") /\ call.param = "doi"
    /\ ens.Hs = Scalar(4000) /\ ens.Tp = Scalar(11000) /\ ens.beta = Scalar(100)
    /\ err = "ValueError" /\ series = NoSeries

\* the column names f"{ModelName}_{param}" of the discovered classes that define
\* param
ExpectedColumns(param) ==
    {ens.runup_models[i] \o "_" \o param :
        i \in {j \in 1..Len(ens.runup_models) : param \in Props(ens.runup_models[j])}}

ColumnsOf(t) == {t.cols[c] : c \in 1..Len(t.cols)}

EnsScalar ==
    /\ ens.Hs.kind = "scalar" /\ ens.Tp.kind = "scalar" /\ ens.beta.kind = "scalar"
    /\ IsScalarOrNone(ens.Lp) /\ IsScalarOrNone(ens.r)

EnsSeq(n) ==
    /\ ens.Hs.kind = "seq" /\ Len(ens.Hs.v) = n
    /\ ens.Tp.kind = "seq" /\ Len(ens.Tp.v) = n
    /\ ens.beta.kind = "seq" /\ Len(ens.beta.v) = n
    /\ IsSeqOfLenOrNone(ens.Lp, n) /\ IsSeqOfLenOrNone(ens.r, n)

\* C7: the table EnsembleRaw.estimate returns has one row for inputs that are
\* numbers and n rows for inputs that are sequences of length n, n >= 1 and n = 1
\* included.
C7_RowsEqualInputLength ==
    (Estimated("Raw") /\ call.param \in Params) =>
        /\ EnsScalar => (err = "none" /\ table.nrows = 1)
        /\ EnsSeq(Len(ens.Hs.v)) => (err = "none" /\ table.nrows = Len(ens.Hs.v))
\* the cells of row i of the table t, and those that hold a number
RowCells(t, i) == [c \in 1..Len(t.cols) |-> t.cells[c][i]]

NumbersOf(row) == {c \in 1..Len(row) : ~IsNaN(row[c])}

\* m is the arithmetic mean of the cells S of row, to the last digit kept
IsMeanOver(m, row, S) ==
    /\ ~IsNaN(m)
    /\ Abs(SumOver(row, S) - Cardinality(S) * m) < Cardinality(S)

\* the series s has one entry per row of the outcome raw of EnsembleRaw, each the
\* mean of every column of the row: NaN when a cell of the row is NaN
MeanOfAllColumns(s, raw) ==
    /\ raw.err = "none"
    /\ Len(s.v) = raw.table.nrows
    /\ \A i \in 1..raw.table.nrows :
          IF NumbersOf(RowCells(raw.table, i)) # 1..Len(raw.table.cols)
          THEN IsNaN(s.v[i])
          ELSE IsMeanOver(s.v[i], RowCells(raw.table, i), 1..Len(raw.table.cols))

\* the same, each entry the mean of the cells of the row that hold a number, and
\* NaN when none does
MeanOfNumbers(s, raw) ==
    /\ raw.err = "none"
    /\ Len(s.v) = raw.table.nrows
    /\ \A i \in 1..raw.table.nrows :
          IF NumbersOf(RowCells(raw.table, i)) = {} THEN IsNaN(s.v[i])
          ELSE IsMeanOver(s.v[i], RowCells(raw.table, i),
                          NumbersOf(RowCells(raw.table, i)))

\* C8 as stated: whenever EnsembleMean.estimate(param) returns, its series has
\* one entry per row of the table EnsembleRaw.estimate(param) returns for the
\* same inputs, each the arithmetic mean of the row over every column present.
C8_MeanOverColumnsPresent ==
    (Estimated("Mean") /\ err = "none")
        => MeanOfAllColumns(series, model_estimates(ens, call.param))

\* C8 amended: whenever EnsembleMean.estimate(param) returns, its series has one
\* entry per row of the table EnsembleRaw.estimate(param) returns for the same
\* inputs, each the arithmetic mean of the cells of the row that are not NaN (NaN
\* when every cell is): a model whose estimate is NaN is left out of the mean.
C8_MeanSkipsNaN ==
    (Estimated("Mean") /\ err = "none")
        => MeanOfNumbers(series, model_estimates(ens, call.param))

C8_Witness ==
    /\ Estimated("Mean") /\ err = "none" /\ call.param = "R2"
    /\ IsNone(ens.r) /\ Len(series.v) = 2
    /\ \A i \in 1..2 : ~IsNaN(series.v[i])
    /\ series.name = "mean_R2"

\* the value param of class cls built directly from the inputs of the held
\* ensemble, Lp included
DirectEstimate(cls, param) ==
    GetOf(Construct(cls, ens.Hs, ens.Tp, ens.beta, ens.Lp, None, ens.r), param)

\* C9: EnsembleRaw.estimate constructs every model with the Hs, Tp, beta, Lp and
\* r given to the ensemble; from an ensemble given numbers Hs, beta and Lp and no
\* Tp it returns, in each column, the value the class gives when it is
\* constructed directly with that Lp.
C9_ModelsGetEnsembleInputs ==
    (Estimated("Raw") /\ call.param \in Params) =>
        /\ \A i \in 1..Len(built) :
              /\ built[i].args.Hs = ens.Hs /\ built[i].args.Tp = ens.Tp
              /\ built[i].args.beta = ens.beta /\ built[i].args.Lp = ens.Lp
              /\ built[i].args.r = ens.r
        /\ ( /\ ens.Hs.kind = "scalar" /\ ens.beta.kind = "scalar"
             /\ ens.Lp.kind = "scalar" /\ IsNone(ens.Tp) /\ IsScalarOrNone(ens.r) )
              => /\ err = "none"
                 /\ \A c \in 1..Len(built) :
                       table.cells[c] = DirectEstimate(built[c].cls, call.param).val.v

\* C10: estimate("R2") of an EnsembleRaw given Hs, Tp and beta of one shape and
\* nothing else raises nothing and returns a table with one column for each class
\* that implements R2, Power2018_R2 among them.
C10_NoRoughnessNoFailure ==
    ( /\ Estimated("Raw") /\ call.param = "R2"
      /\ IsNone(ens.r) /\ IsNone(ens.Lp)
      /\ (EnsScalar \/ EnsSeq(Len(ens.Hs.v))) )
        => /\ err = "none"
           /\ ColumnsOf(table) = ExpectedColumns("R2")
           /\ {"Power2018_R2", "Stockdon2006_R2", "Holman1986_R2", "Nielsen2009_R2",
               "Ruggiero2001_R2", "Vousdoukas2012_R2", "Atkinson2017_R2",
               "Senechal2011_R2"} \subseteq ColumnsOf(table)
\* the classes the held ensemble discovered
Discovered == {ens.runup_models[i] : i \in 1..Len(ens.runup_models)}

\* C11 as stated: every class the ensemble discovers implements R2.
C11_EveryModelHasR2 ==
    pc = "ensemble" => \A c \in Discovered : HasAttr(c, "R2")

\* C11 amended: every class the ensemble discovers implements R2 except
\* Passarella2018, which implements sig and swash only; every class implements
\* at least one of the five parameters, and estimate("R2"), when it returns, has
\* a column for every discovered class but Passarella2018.
C11_EveryModelButPassarellaHasR2 ==
    pc = "ensemble" =>
        /\ \A c \in Discovered : HasAttr(c, "R2") <=> c # "Passarella2018"
        /\ \A c \in Discovered : \E p \in Params : HasAttr(c, p)
        /\ {p \in Params : HasAttr("Passarella2018", p)} = {"sig", "swash"}
        /\ (Estimated("Raw") /\ call.param = "R2" /\ err = "none")
              => ColumnsOf(table) =
                    {c \o "_R2" : c \in Discovered \ {"Passarella2018"}}

C11_Witness ==
    /\ Estimated("Raw") /\ call.param = "R2" /\ err = "none"
    /\ "Passarella2018" \in Discovered
    /\ Len(table.cols) = Len(ens.runup_models) - 1
    /\ "Passarella2018_R2" \notin ColumnsOf(table)
\* Eqn 18 and Eqn 19 of Stockdon et al (2006) for one case
Eqn18(Hs, Lp) == FMul(43, FSqrt(FMul(Hs, Lp)))

Eqn19(Hs, beta, Lp) ==
    FMul(1100,
         FAdd(FMul(FMul(350, beta), FSqrt(FMul(Hs, Lp))),
              FRatio(FSqrt(FMul(FMul(Hs, Lp), FAdd(FMul(563, FMul(beta, beta)), 4))),
                     1, 2)))

\* the accessor param of an instance of class cls has just returned
Got(cls, param) ==
    call.op = "get" /\ call.cls = cls /\ call.param = param /\ err = "none"

\* C12: element i of Stockdon2006.R2 is Eqn 18, 0.043*sqrt(Hs[i]*Lp[i]), exactly
\* when zeta[i] < 0.3 and Eqn 19 otherwise, zeta[i] = 0.3 included; it is a
\* function of Hs[i], beta[i], Lp[i] and zeta[i] alone.
C12_StockdonBranchPerElement ==
    Got("Stockdon2006", "R2") =>
        /\ Len(ret.v) = Len(model.Hs)
        /\ \A i \in 1..Len(model.Hs) :
              ret.v[i] = IF ~IsNaN(model.zeta[i]) /\ model.zeta[i] < 300
                         THEN Eqn18(model.Hs[i], model.Lp[i])
                         ELSE Eqn19(model.Hs[i], model.beta[i], model.Lp[i])

\* Hs = 1, Lp = 100, beta = 0.03: zeta is 0.3 and Eqn 19 is used
C12_Witness ==
    /\ Got("Stockdon2006", "R2")
    /\ model.zeta = <<300>>
    /\ ret.v[1] = Eqn19(model.Hs[1], model.beta[1], model.Lp[1])
    /\ ret.v[1] # Eqn18(model.Hs[1], model.Lp[1])
\* sqrt(a^2 + b^2)
Quadrature(a, b) == FSqrt(FAdd(FMul(a, a), FMul(b, b)))

\* the inputs of the held instance are valid: Hs > 0, Tp > 0, 0 < beta < 1
ValidCase(m) ==
    \A i \in 1..Len(m.Hs) :
        m.Hs[i] > 0 /\ m.Tp[i] > 0 /\ m.beta[i] > 0 /\ m.beta[i] < Scale

\* C13: for a Stockdon2006 instance with Hs > 0, Tp > 0 and 0 < beta < 1, built
\* from numbers or from sequences, element i of swash is sqrt(sinc[i]^2 +
\* sig[i]^2) of the values its own sinc and sig return.
C13_SwashIsQuadratureSum ==
    (Got("Stockdon2006", "swash") /\ ValidCase(model)) =>
        /\ GetAttr(model, "sinc").err = "none" /\ GetAttr(model, "sig").err = "none"
        /\ Len(ret.v) = Len(model.Hs)
        /\ \A i \in 1..Len(model.Hs) :
              ret.v[i] = Quadrature(GetAttr(model, "sinc").val.v[i],
                                    GetAttr(model, "sig").val.v[i])

C13_Witness ==
    /\ Got("Stockdon2006", "swash") /\ ValidCase(model)
    /\ Len(ret.v) = 2 /\ ~ret.scalar
    /\ \A i \in 1..2 : ret.v[i] > 0
    /\ ret.v[1] # ret.v[2]
\* the instance the constructor call recorded in call returns
AsConstructed ==
    Construct(call.cls, call.Hs, call.Tp, call.beta, call.Lp, call.h, call.r).obj

C15_RoughnessLengthChecked ==
    /\ (call.op = "new" /\ ~IsNone(call.r) /\ LiftedLen(call.r) # LiftedLen(call.Hs))
          => (err = "ValueError" /\ model = NoModel)
    /\ (pc = "model" /\ ~IsNone(call.r)) => Len(model.r) = Len(model.Hs)

\* the depth is a list with one depth for each of the n cases, and one of Tp and
\* Lp is given, as a list of n
DepthPerCase ==
    /\ call.h.kind = "seq" /\ Len(call.h.v) = LiftedLen(call.Hs)
    /\ call.Hs.kind = "seq" /\ call.beta.kind = "seq"
    /\ Len(call.beta.v) = Len(call.Hs.v)
    /\ IsNone(call.Tp) # IsNone(call.Lp)
    /\ WaveArg(call).kind = "seq" /\ Len(WaveArg(call).v) = Len(call.Hs.v)

\* C16: a constructor given h as a list of one depth per case returns an
\* instance, whose missing one of Lp and Tp is, for case i, the value the
\* dispersion relation gives for the depth h[i].
C16_DepthListPerCase ==
    (call.op = "new" /\ DepthPerCase) =>
        /\ err = "none" /\ pc = "model"
        /\ \A i \in 1..Len(call.h.v) :
              IF IsNone(call.Lp)
              THEN model.Lp[i] = LpFromTp(<<call.Tp.v[i]>>, Scalar(call.h.v[i]))[1]
              ELSE model.Tp[i] = TpFromLp(<<call.Lp.v[i]>>, Scalar(call.h.v[i]))[1]
\* a second instance is held, built from the Lp the first derived from its Tp
RoundTrip == pc = "model" /\ prev # NoModel

WithDepth ==
    /\ call.op = "new" /\ call.h.kind = "scalar" /\ call.h.v[1] > 0
    /\ IsNone(call.Lp) /\ ~IsNone(call.Tp)

\* C18: no call of a constructor is left in the loop of _newtRaph: a constructor
\* given a depth h > 0 and periods T > 0 returns, with a wave length for every
\* period, each found within MaxNewton passes of the loop.
C18_NewtonLoopExits ==
    /\ err # "hang"
    /\ WithDepth =>
          /\ \A i \in 1..Len(call.Tp.v) : newtRaph(call.Tp.v[i], call.h.v[1]) # Hang
          /\ err = "none" =>
                \A i \in 1..Len(model.Lp) : ~IsNaN(model.Lp[i]) /\ model.Lp[i] > 0

\* Tp = [8, 11] s in 5 m of water: wave lengths near 52.9 m and 75 m
C18_Witness ==
    /\ WithDepth /\ err = "none" /\ pc = "model"
    /\ call.h = Scalar(5000) /\ model.Tp = <<8000, 11000>>
    /\ model.Lp[1] > 52000 /\ model.Lp[1] < 54000
    /\ model.Lp[2] > 73000 /\ model.Lp[2] < 76000

\* the classes that exist while the held ensemble exists: those of models.py and
\* those defined beside them (classes are defined only while nothing is held)
Existing == {ModelNames[i] : i \in 1..Len(ModelNames)} \cup classes

\* C19: every model class that exists when the ensemble is constructed and
\* defines param, whether it extends RunupModel directly or extends another
\* model class, has its column in the table estimate(param) returns.
C19_EveryExistingClassContributes ==
    (Estimated("Raw") /\ call.param \in Params /\ err = "none") =>
        \A c \in Existing :
            call.param \in Props(c) => (c \o "_" \o call.param) \in ColumnsOf(table)

\* what the call caller c has finished returns when it runs alone: the error
\* raised, the value, the table and the series
Alone(c) ==
    LET k == callers[c]
        e == NewEnsembleObj(k.cls, k.args.Hs, k.args.Tp, k.args.beta, k.args.Lp,
                            k.args.r, classes)
    IN  CASE k.op = "new" ->
               [err |-> ConstructWith(k.cls, k.args).err, val |-> NoVal,
                table |-> NoTable, series |-> NoSeries]
          [] k.op = "get" ->
               [err |-> GetOf(ConstructWith(k.cls, k.args), k.param).err,
                val |-> GetOf(ConstructWith(k.cls, k.args), k.param).val,
                table |-> NoTable, series |-> NoSeries]
          [] k.op = "estimate" /\ k.cls = "Raw" ->
               [err |-> model_estimates(e, k.param).err, val |-> NoVal,
                table |-> model_estimates(e, k.param).table, series |-> NoSeries]
          [] k.op = "estimate" /\ k.cls = "Mean" ->
               [err |-> mean_estimate(e, k.param).err, val |-> NoVal,
                table |-> NoTable, series |-> mean_estimate(e, k.param).series]

\* C20: whatever the order in which the steps of two callers with disjoint
\* inputs are interleaved, every finished call (a construction, an accessor
\* query, an ensemble estimate) has raised the error and returned the value,
\* table or series it raises and returns when it runs alone; an instance a
\* caller holds is the one its constructor builds alone.
C20_InterleavedAsAlone ==
    \A c \in Callers :
        /\ callers[c].at = "done" =>
              /\ callers[c].err = Alone(c).err
              /\ callers[c].val = Alone(c).val
              /\ callers[c].table = Alone(c).table
              /\ callers[c].series = Alone(c).series
        /\ callers[c].at = "model" =>
              callers[c].obj = ConstructWith(callers[c].cls, callers[c].args).obj

\* both callers have finished an estimate whose steps were interleaved with the
\* other's: a one-row table of nine columns and a series of two means
C20_Witness ==
    /\ \A c \in Callers :
          callers[c].at = "done" /\ callers[c].op = "estimate" /\ callers[c].mixed
    /\ callers[1].cls = "Raw" /\ callers[1].param = "R2" /\ callers[1].err = "none"
    /\ Len(callers[1].table.cols) = 9 /\ callers[1].table.nrows = 1
    /\ callers[2].cls = "Mean" /\ callers[2].param = "sig" /\ callers[2].err = "none"
    /\ Len(callers[2].series.v) = 2

\* determine_waveDepth was the last call on the held dataframe
Labelled == pc = "frame" /\ df.op = "determine_waveDepth"

\* the label the three cases give a record of depth d and deep water wave length
\* Lo, both numbers: below Lo/50, from Lo/50 to Lo/2 with both ends, above Lo/2
CaseLabel(d, Lo) ==
    IF 50 * d < Lo THEN "shallow" ELSE IF 2 * d > Lo THEN "deep" ELSE "intermediate"

\* C21 as stated: every row whose depth is not NaN has the one label of its case,
\* shallow below Lo/50, deep above Lo/2, intermediate between with both ends.
C21_EveryDepthLabelled ==
    Labelled =>
        \A i \in 1..Len(df.rows) :
            ~IsNaN(df.rows[i].water_depth) =>
                /\ df.out[i] \in {"shallow", "intermediate", "deep"}
                /\ IsNaN(df.rows[i].Lo)
                      \/ df.out[i] = CaseLabel(df.rows[i].water_depth, df.rows[i].Lo)

\* C21 amended: every row whose depth and Lo are both not NaN has the one label
\* of its case, a depth equal to Lo/50 or to Lo/2 being intermediate; the series
\* returned has one label per row and is the wave_depth column written to df.
C21_EveryComparableRowLabelled ==
    Labelled =>
        /\ Len(df.out) = Len(df.rows)
        /\ df.wave_depth = df.out
        /\ \A i \in 1..Len(df.rows) :
              (~IsNaN(df.rows[i].water_depth) /\ ~IsNaN(df.rows[i].Lo)) =>
                  df.out[i] = CaseLabel(df.rows[i].water_depth, df.rows[i].Lo)

\* depths of 4 m and 100 m with Lo = 200 m: both bounds are intermediate
C21_Witness ==
    /\ Labelled
    /\ Len(df.rows) = 2
    /\ df.rows[1].water_depth = 4000 /\ df.rows[1].Lo = 200000
    /\ df.rows[2].water_depth = 100000 /\ df.rows[2].Lo = 200000
    /\ df.out = <<"intermediate", "intermediate">>

\* reverse_shoal was the last call, on a dataframe that has a wave_depth column
Shoaled == pc = "frame" /\ df.op = "reverse_shoal" /\ df.by # "none"

\* the value reverse_shoal gives row i by its label
ValueByLabel(i) ==
    /\ df.wave_depth[i] = "deep" => df.out[i] = df.rows[i].Hs
    /\ df.wave_depth[i] = "shallow" => IsNaN(df.out[i])
    /\ df.wave_depth[i] = "intermediate" => df.out[i] = ShoalOne(df.rows[i])

\* some row labelled intermediate lies deeper than Lo/2
MislabelledDeep ==
    \E i \in 1..Len(df.rows) :
        /\ df.wave_depth[i] = "intermediate"
        /\ ~IsNaN(df.rows[i].water_depth) /\ ~IsNaN(df.rows[i].Lo)
        /\ 2 * df.rows[i].water_depth > df.rows[i].Lo

ShoaledIntermediate == pc = "frame" /\ df.op = "reverse_shoal_intermediate"

\* some row of the dataframe has numbers d and Lo with d > Lo/2, with d < Lo/50
SomeRowDeep ==
    \E i \in 1..Len(df.rows) :
        /\ ~IsNaN(df.rows[i].water_depth) /\ ~IsNaN(df.rows[i].Lo)
        /\ 2 * df.rows[i].water_depth > df.rows[i].Lo

SomeRowShallow ==
    \E i \in 1..Len(df.rows) :
        /\ ~IsNaN(df.rows[i].water_depth) /\ ~IsNaN(df.rows[i].Lo)
        /\ 50 * df.rows[i].water_depth < df.rows[i].Lo

\* C23: reverse_shoal_intermediate raises ValueError and returns nothing when
\* some row has depth > Lo/2; when no row has but some row has depth < Lo/50 it
\* prints the shallow water message and nothing else, and returns one value per
\* row; with neither it prints nothing and returns one value per row.
C23_DeepRaisesShallowPrints ==
    ShoaledIntermediate =>
        /\ SomeRowDeep =>
              (df.err = "ValueError" /\ df.out = <<>> /\ df.printed = <<"deep">>)
        /\ ~SomeRowDeep =>
              /\ df.err = "none"
              /\ Len(df.out) = Len(df.rows)
              /\ df.printed = IF SomeRowShallow THEN <<"shallow">> ELSE <<>>

\* a depth of 10 m beside one of 2 m, Lo = 200 m: the message and two values
C23_Witness ==
    /\ ShoaledIntermediate
    /\ Len(df.rows) = 2
    /\ df.rows[1].water_depth = 10000 /\ df.rows[2].water_depth = 2000
    /\ df.err = "none" /\ df.printed = <<"shallow">>
    /\ Len(df.out) = 2 /\ ~IsNaN(df.out[1]) /\ ~IsNaN(df.out[2])

\* C30: on a dataframe whose wave_depth column determine_waveDepth wrote from
\* the water_depth and Lo it still has, reverse_shoal never raises the deep
\* water error and never prints its message: it returns one value per row.
C30_DeterminedLabelsNeverRaise ==
    (Shoaled /\ df.by = "determine") =>
        /\ df.wave_depth = determine_waveDepth(df.rows)
        /\ df.err = "none"
        /\ \A p \in 1..Len(df.printed) : df.printed[p] # "deep"
        /\ Len(df.out) = Len(df.rows)

\* a depth of 150 m beside one of 100 m, Lo = 200 m: the deep row keeps its Hs,
\* the row at Lo/2 is shoaled
C30_Witness ==
    /\ Shoaled /\ df.by = "determine"
    /\ Len(df.rows) = 2
    /\ df.rows[1].water_depth = 150000 /\ df.rows[2].water_depth = 100000
    /\ df.wave_depth = <<"deep", "intermediate">>
    /\ df.err = "none"
    /\ df.out[1] = df.rows[1].Hs
    /\ ~IsNaN(df.out[2]) /\ df.out[2] > 0

\* LR of Nielsen (2009) for one case
SteepLR(Hs, beta, Lp) == FMul(FMul(600, FTan(beta)), FSqrt(FMul(Hs, Lp)))

FlatLR(Hs, Lp) == FMul(60, FSqrt(FMul(Hs, Lp)))

\* C24: element i of Nielsen2009.R2 is 1.98 * LR[i], where LR[i] is
\* 0.6*tan(beta[i])*sqrt(Hs[i]*Lp[i]) when tan(beta[i]) >= 0.1, equality included,
\* and 0.06*sqrt(Hs[i]*Lp[i]) otherwise, with the Hs and Lp of the same element.
C24_NielsenBranchPerElement ==
    Got("Nielsen2009", "R2") =>
        /\ Len(ret.v) = Len(model.Hs)
        /\ \A i \in 1..Len(model.Hs) :
              ret.v[i] = FMul(1980,
                              IF FLessEq(100, FTan(model.beta[i]))
                              THEN SteepLR(model.Hs[i], model.beta[i], model.Lp[i])
                              ELSE FlatLR(model.Hs[i], model.Lp[i]))

\* beta = [0.1, 0.001] with Hs = [1, 4]: the first element is on the threshold,
\* where the two forms meet (0.6 * 0.1 = 0.06), the second takes the flat form
\* with its own Hs and Lp
C24_Witness ==
    /\ Got("Nielsen2009", "R2")
    /\ model.beta = <<100, 1>> /\ model.Hs = <<1000, 4000>>
    /\ FTan(model.beta[1]) = 100
    /\ ret.v[1] = FMul(1980, SteepLR(model.Hs[1], model.beta[1], model.Lp[1]))
    /\ ret.v[2] = FMul(1980, FlatLR(model.Hs[2], model.Lp[2]))
    /\ ret.v[2] # FMul(1980, FlatLR(model.Hs[1], model.Lp[1]))

\* element i of an argument given as a list, as a number; None stays None
ElemArg(a, i) == IF IsNone(a) THEN None ELSE Scalar(a.v[i])

\* the depth of row i: the i-th element of a list, a number or None as it is
ElemDepth(h, i) == IF h.kind = "seq" THEN Scalar(h.v[i]) ELSE h

\* the accessor just read, on an instance of the same class built from the i-th
\* elements of the arguments alone
RowAlone(i) ==
    GetOf(Construct(call.cls, ElemArg(call.Hs, i), ElemArg(call.Tp, i),
                    ElemArg(call.beta, i), ElemArg(call.Lp, i),
                    ElemDepth(call.h, i), ElemArg(call.r, i)),
          call.param)

\* a supported accessor of a closed-form model has returned, on an instance built
\* from sequences of one length
RowsRead ==
    /\ pc = "model" /\ SupportedGet /\ err = "none"
    /\ call.cls # "Beuzen2019"
    /\ \E n \in 1..(MaxLen + 1) : SeqCall(n)

\* C25: for every closed-form model and supported parameter, element i of the
\* value returned by an instance built from sequences of length n is the value
\* an instance built from the i-th elements alone returns; so it does not depend
\* on the elements of any other row, NaN or not.
C25_RowsIndependent ==
    RowsRead =>
        /\ Len(ret.v) = Len(call.Hs.v)
        /\ \A i \in 1..Len(call.Hs.v) :
              /\ RowAlone(i).err = "none"
              /\ ret.v[i] = RowAlone(i).val.v[1]

\* r = [NaN, 0.002]: the first element of Power2018.R2 is NaN, the second is the
\* number r = 0.002 alone gives
C25_Witness ==
    /\ RowsRead /\ call.cls = "Power2018" /\ call.param = "R2"
    /\ call.Hs = List(<<1000, 4000>>) /\ call.Tp = List(<<8000, 11000>>)
    /\ call.beta = List(<<100, 1>>) /\ call.r = List(<<NaN, 2>>)
    /\ IsNaN(ret.v[1])
    /\ ~IsNaN(ret.v[2])
    /\ ret.v[2] = RowAlone(2).val.v[1]

\* the constructor of the held instance was given both Tp and Lp
BothGiven == call.op \in {"new", "get"} /\ ~IsNone(call.Tp) /\ ~IsNone(call.Lp)

\* the same constructor call with Tp left out
WithoutTp == Construct(call.cls, call.Hs, None, call.beta, call.Lp, call.h, call.r)

\* C26: a constructor given both Tp and Lp does what it does when given that Lp
\* alone: it raises nothing on account of Tp, keeps the Lp given and computes Tp
\* from it (and from h when given), so every accessor, those reading Tp included
\* (Passarella2018.swash, Beuzen2019.R2), returns what it returns without Tp.
C26_LpOverridesTp ==
    BothGiven =>
        /\ call.op = "new" => (err = WithoutTp.err /\ model = WithoutTp.obj)
        /\ pc = "model" =>
              /\ WithoutTp.err = "none"
              /\ model.Lp = call.Lp.v
              /\ model.Tp = TpFromLp(call.Lp.v, call.h)
        /\ (pc = "model" /\ call.op = "get") =>
              /\ err = GetAttr(WithoutTp.obj, call.param).err
              /\ ret = GetAttr(WithoutTp.obj, call.param).val

\* Tp = 11 s with Lp = 200 m: the instance has Tp = sqrt(2 pi 200 / 9.81), near
\* 11.3 s, and Passarella2018.swash is computed from it
C26_Witness ==
    /\ BothGiven /\ pc = "model" /\ call.op = "get" /\ err = "none"
    /\ call.cls = "Passarella2018" /\ call.param = "swash"
    /\ call.Tp = Scalar(11000) /\ call.Lp = Scalar(200000) /\ IsNone(call.h)
    /\ model.Lp = <<200000>>
    /\ model.Tp[1] > 11200 /\ model.Tp[1] < 11400
    /\ ~IsNaN(ret.v[1])

\* the value for row i of each class of the held ensemble that defines param, by
\* position in the order of discovery
ModelValues(param, i) ==
    [c \in 1..Len(Supporting(ens, param)) |->
        Bc(ModelEstimate(ens, Supporting(ens, param)[c], param).val.v, i)]

\* C27: entry i of the series EnsembleMean.estimate(param) returns is NaN exactly
\* when every model's value for row i is NaN; otherwise it is the sum of the
\* values that are not NaN divided by their number, the models whose value is
\* NaN (Power2018 when the ensemble has no r) left out.
C27_NaNModelLeftOut ==
    (Estimated("Mean") /\ err = "none") =>
        \A i \in 1..Len(series.v) :
            \E vals \in {ModelValues(call.param, i)} :
                \E num \in {NumbersOf(vals)} :
                    /\ IsNaN(series.v[i]) <=> num = {}
                    /\ num # {} =>
                          series.v[i] = TDiv(SumOver(vals, num), Cardinality(num))

\* Hs = [1, 4], Tp = [8, 11], beta = [0.1, 0.001] and no r: Power2018 gives NaN in
\* both rows, the eight other models give numbers, and each mean is over eight
C27_Witness ==
    /\ Estimated("Mean") /\ err = "none" /\ call.param = "R2"
    /\ ens.Hs = List(<<1000, 4000>>) /\ ens.Tp = List(<<8000, 11000>>)
    /\ ens.beta = List(<<100, 1>>) /\ IsNone(ens.r) /\ IsNone(ens.Lp)
    /\ Len(series.v) = 2
    /\ \A i \in 1..2 :
          /\ IsNaN(ModelEstimate(ens, "Power2018", "R2").val.v[i])
          /\ Cardinality(NumbersOf(ModelValues("R2", i))) = 8
          /\ Len(ModelValues("R2", i)) = 9
          /\ ~IsNaN(series.v[i])

\* the constructor of some class that defines param raises on the inputs of the
\* held ensemble
SomeConstructorFails(param) ==
    \E c \in 1..Len(Supporting(ens, param)) :
        ConstructWith(Supporting(ens, param)[c], ModelArgs(ens)).err # "none"

\* C28: EnsembleRaw.estimate looks at param before it constructs any model.  With
\* a param outside the five it raises ValueError having made no constructor
\* call, whatever the inputs of the ensemble; with a valid param, a constructor
\* that raises ends the call with that error and no table.
C28_ParamCheckedFirst ==
    Estimated("Raw") =>
        /\ ~IsValidParam(call.param) =>
              (err = "ValueError" /\ built = <<>> /\ table = NoTable)
        /\ (IsValidParam(call.param) /\ SomeConstructorFails(call.param)) =>
              /\ err # "none"
              /\ table = NoTable
              /\ Len(built) >= 1
              /\ err = ConstructWith(built[Len(built)].cls, built[Len(built)].args).err

\* an ensemble given neither Tp nor Lp, asked for "doi": every class has a doi,
\* every constructor would raise, none is called
C28_Witness ==
    /\ Estimated("Raw") /\ call.param = "doi"
    /\ IsNone(ens.Tp) /\ IsNone(ens.Lp)
    /\ SomeConstructorFails("R2")
    /\ \A i \in 1..Len(ens.runup_models) : HasAttr(ens.runup_models[i], "doi")
    /\ err = "ValueError" /\ built = <<>> /\ table = NoTable

\* the value 100 that _newtRaph gives k2 before its loop, in millionths
Placeholder100 == 100 * Scale * Scale

\* C29: _newtRaph never returns the placeholder 100 given to k2 before the loop:
\* whenever a constructor given a depth and periods has returned, the wave
\* number found for each period, and the wave length 2*pi/k made of it, come of
\* at least one pass of the loop's body and not of the placeholder.
C29_PlaceholderNeverReturned ==
    (WithDepth /\ pc = "model") =>
        \A i \in 1..Len(call.Tp.v) :
            /\ newtRaph(call.Tp.v[i], call.h.v[1]) # Placeholder100
            /\ model.Lp[i] # LengthOfK(Placeholder100)

====
